---- MODULE Spec2Model ----
(***************************************************************************)
(* A model of main.py, the Times of India command-line reader: the feed    *)
(* fetcher with its time-bounded in-memory cache (fetch_feed), the URL     *)
(* validator (is_allowed_url) and the article launcher (open_article).     *)
(*                                                                         *)
(* Text that the program inspects character by character (URLs, host       *)
(* names, feed fields) is a sequence of one-character strings; topic names *)
(* and feed addresses, which are only compared for equality, are strings.  *)
(* An optional value (Python's None or a value) is a sequence of length 0  *)
(* or 1.                                                                   *)
(***************************************************************************)
EXTENDS Integers, Sequences, FiniteSets, TLC

VARIABLES
    now,      \* the reading of time.time(), in seconds
    CACHE,    \* the module-level dict CACHE: genre -> [data, timestamp]
    lastGet,  \* per genre, the last requests.get issued for it: when, and whether
              \* its result was stored in CACHE (None if there was none)
    browser,  \* the URLs handed to webbrowser.open so far, in order
    call,     \* the last call: its arguments, what it read from the environment,
              \* the cache it started from, its return value, output and effects
    steps,    \* number of operations performed so far
    main      \* the interactive loop of main(): where it stands (pc), the genre
              \* and the view it shows, the URL it is opening, the input it last
              \* read, the lines it last printed, how the process ended, and its
              \* last step (last) with the place it was taken at (at)

vars == <<now, CACHE, lastGet, browser, call, steps, main>>

----
\* Bounds of the exploration.

\* how many operations a run performs
MaxSteps == 5
\* how many steps a run of the interactive loop performs
MaxMainSteps == 7
\* how many browser launches are recorded
MaxLaunches == 2
\* longest entry list handed to get_top_entries
MaxEntries == 15
\* largest n handed to get_top_entries
MaxN == 11

----
\* Configuration (main.py, lines 10-30).

None == <<>>
Some(x) == <<x>>

GenreNames ==
    <<"Top Stories", "India", "World", "Business", "Sports", "Tech", "Entertainment">>

FeedUrls ==
    <<"https://timesofindia.indiatimes.com/rssfeedstopstories.cms",
      "https://timesofindia.indiatimes.com/rssfeeds/-2128936835.cms",
      "https://timesofindia.indiatimes.com/rssfeeds/296589292.cms",
      "https://timesofindia.indiatimes.com/rssfeeds/1898055.cms",
      "https://timesofindia.indiatimes.com/rssfeeds/4719148.cms",
      "https://timesofindia.indiatimes.com/rssfeeds/66949542.cms",
      "https://timesofindia.indiatimes.com/rssfeeds/1081479906.cms">>

Range(s) == {s[i] : i \in 1..Len(s)}

FEEDS ==
    [g \in Range(GenreNames) |->
        FeedUrls[CHOOSE i \in 1..Len(GenreNames) : GenreNames[i] = g]]

CACHE_DURATION == 300

----
\* Text helpers: what str.find, the `in` operator on strings, str.endswith,
\* str.lower, str.lstrip and str.strip do on the characters used here.

Letters ==
    <<"a", "b", "c", "d", "e", "f", "g", "h", "i", "j", "k", "l", "m", "n", "o", "p", "q", "r", "s", "t", "u", "v", "w", "x", "y", "z">>
Capitals ==
    <<"A", "B", "C", "D", "E", "F", "G", "H", "I", "J", "K", "L", "M", "N", "O", "P", "Q", "R", "S", "T", "U", "V", "W", "X", "Y", "Z">>
Digits == {"0", "1", "2", "3", "4", "5", "6", "7", "8", "9"}

\* 1-based position of the first c in s at or after position from; 0 if none
Find(s, c, from) ==
    IF \E i \in from..Len(s) : s[i] = c
    THEN CHOOSE i \in from..Len(s) : s[i] = c /\ \A j \in from..(i - 1) : s[j] # c
    ELSE 0

\* sub in s
Contains(s, sub) ==
    \E i \in 0..(Len(s) - Len(sub)) : SubSeq(s, i + 1, i + Len(sub)) = sub

\* s.endswith(suf)
EndsWith(s, suf) ==
    /\ Len(suf) <= Len(s)
    /\ SubSeq(s, Len(s) - Len(suf) + 1, Len(s)) = suf

LowerChar(c) ==
    IF \E i \in 1..Len(Capitals) : Capitals[i] = c
    THEN Letters[CHOOSE i \in 1..Len(Capitals) : Capitals[i] = c]
    ELSE c

\* s.lower()
Lower(s) == [i \in 1..Len(s) |-> LowerChar(s[i])]

\* s.lstrip() and s.strip(), for the one whitespace character used here
RECURSIVE LStrip(_)
LStrip(s) == IF s # <<>> /\ Head(s) = " " THEN LStrip(Tail(s)) ELSE s

RECURSIVE RStrip(_)
RStrip(s) ==
    IF s # <<>> /\ s[Len(s)] = " " THEN RStrip(SubSeq(s, 1, Len(s) - 1)) ELSE s

Strip(s) == RStrip(LStrip(s))

----
\* ALLOWED_DOMAINS (main.py, lines 23-28)

\* "timesofindia.indiatimes.com"
DomToi ==
    <<"t","i","m","e","s","o","f","i","n","d","i","a",".","i","n","d","i","a","t","i","m","e","s",".","c","o","m">>
\* "www.timesofindia.indiatimes.com"
DomWwwToi ==
    <<"w","w","w",".","t","i","m","e","s","o","f","i","n","d","i","a",".","i","n","d","i","a","t","i","m","e","s",".","c","o","m">>
\* "economictimes.indiatimes.com"
DomEt ==
    <<"e","c","o","n","o","m","i","c","t","i","m","e","s",".","i","n","d","i","a","t","i","m","e","s",".","c","o","m">>
\* "m.timesofindia.com"
DomMToi ==
    <<"m",".","t","i","m","e","s","o","f","i","n","d","i","a",".","c","o","m">>

ALLOWED_DOMAINS == <<DomToi, DomWwwToi, DomEt, DomMToi>>

\* "indiatimes.com"
Indiatimes ==
    <<"i","n","d","i","a","t","i","m","e","s",".","c","o","m">>

----
\* urllib.parse.urlparse, as is_allowed_url uses it (main.py, lines 118-119):
\* the split into scheme and network location, and the hostname property.

SchemeChars == Range(Letters) \cup Range(Capitals) \cup Digits \cup {"+", "-", "."}

\* the scheme prefix "scheme:" of u, if u has one: the position of its colon, else 0
SchemeEnd(u) ==
    LET k == Find(u, ":", 1)
    IN  IF /\ k > 1
           /\ u[1] \in Range(Letters) \cup Range(Capitals)
           /\ \A j \in 1..(k - 1) : u[j] \in SchemeChars
        THEN k
        ELSE 0

\* where the network location of rest (which starts with "//") ends: just before
\* the first "/", "?" or "#" after the two slashes
NetlocEnd(rest) ==
    LET stops == {i \in 3..Len(rest) : rest[i] \in {"/", "?", "#"}}
    IN  IF stops = {} THEN Len(rest)
        ELSE (CHOOSE i \in stops : \A j \in stops : i <= j) - 1

\* urlparse(url): [ok |-> FALSE] when it raises ValueError, else the parts
urlparse(url) ==
    LET u      == LStrip(url)
        k      == SchemeEnd(u)
        scheme == IF k > 0 THEN Lower(SubSeq(u, 1, k - 1)) ELSE <<>>
        rest   == IF k > 0 THEN SubSeq(u, k + 1, Len(u)) ELSE u
        netloc == IF Len(rest) >= 2 /\ SubSeq(rest, 1, 2) = <<"/", "/">>
                  THEN SubSeq(rest, 3, NetlocEnd(rest))
                  ELSE <<>>
        open   == "[" \in Range(netloc)
        close  == "]" \in Range(netloc)
    IN  IF (open /\ ~close) \/ (close /\ ~open)
        THEN [ok |-> FALSE, scheme |-> <<>>, netloc |-> <<>>]
        ELSE [ok |-> TRUE, scheme |-> scheme, netloc |-> netloc]

\* rpartition("@")[2]: what follows the last "@", or all of s
AfterLastAt(s) ==
    LET ats == {i \in 1..Len(s) : s[i] = "@"}
    IN  IF ats = {} THEN s
        ELSE SubSeq(s, (CHOOSE i \in ats : \A j \in ats : j <= i) + 1, Len(s))

\* partition(c)[0]: what precedes the first c, or all of s
Before(s, c) ==
    LET k == Find(s, c, 1) IN IF k = 0 THEN s ELSE SubSeq(s, 1, k - 1)

\* the hostname property of a parse result: None, or the lower-cased host
hostnameOf(netloc) ==
    LET hostinfo == AfterLastAt(netloc)
        b        == Find(hostinfo, "[", 1)
        host     == IF b > 0
                    THEN Before(SubSeq(hostinfo, b + 1, Len(hostinfo)), "]")
                    ELSE Before(hostinfo, ":")
    IN  IF host = <<>> THEN None ELSE Some(Lower(host))

----
\* is_allowed_url (main.py, lines 113-133)

\* the allow-list loop, lines 123-125
MatchesAllowed(hostname) ==
    \E i \in 1..Len(ALLOWED_DOMAINS) :
        \/ hostname = ALLOWED_DOMAINS[i]
        \/ EndsWith(hostname, <<".">> \o ALLOWED_DOMAINS[i])

\* a variant of MatchesFallback: no fallback
NoFallback(hostname) == FALSE

\* the fallback, lines 127-129
MatchesFallback(hostname) == Contains(hostname, Indiatimes)

is_allowed_url(url) ==
    LET parsed_url == urlparse(url)
        hostname   == hostnameOf(parsed_url.netloc)
    IN  IF ~parsed_url.ok THEN FALSE          \* except Exception
        ELSE IF hostname = None THEN FALSE    \* if not hostname
        ELSE IF MatchesAllowed(hostname[1]) THEN TRUE
        ELSE IF MatchesFallback(hostname[1]) THEN TRUE
        ELSE FALSE

----
\* The URLs the launcher and the validator are called with.

\* "https://timesofindia.indiatimes.com/x"
UrlToi ==
    <<"h","t","t","p","s",":","/","/","t","i","m","e","s","o","f","i","n","d","i","a",".","i","n","d","i","a","t","i","m","e","s",".","c","o","m","/","x">>
\* "https://evil.com"
UrlEvil ==
    <<"h","t","t","p","s",":","/","/","e","v","i","l",".","c","o","m">>
\* "https://sub.indiatimes.com/x"
UrlSub ==
    <<"h","t","t","p","s",":","/","/","s","u","b",".","i","n","d","i","a","t","i","m","e","s",".","c","o","m","/","x">>
\* "not a url"
UrlNotAUrl ==
    <<"n","o","t"," ","a"," ","u","r","l">>
\* "https://a.m.timesofindia.com/s"
UrlMobile ==
    <<"h","t","t","p","s",":","/","/","a",".","m",".","t","i","m","e","s","o","f","i","n","d","i","a",".","c","o","m","/","s">>
\* "HTTPS://WWW.TimesOfIndia.IndiaTimes.com:443/x"
UrlUpper ==
    <<"H","T","T","P","S",":","/","/","W","W","W",".","T","i","m","e","s","O","f","I","n","d","i","a",".","I","n","d","i","a","T","i","m","e","s",".","c","o","m",":","4","4","3","/","x">>
\* "http://u@economictimes.indiatimes.com?q"
UrlUser ==
    <<"h","t","t","p",":","/","/","u","@","e","c","o","n","o","m","i","c","t","i","m","e","s",".","i","n","d","i","a","t","i","m","e","s",".","c","o","m","?","q">>
\* "http://notindiatimes.com.evil.org/"
UrlFooled ==
    <<"h","t","t","p",":","/","/","n","o","t","i","n","d","i","a","t","i","m","e","s",".","c","o","m",".","e","v","i","l",".","o","r","g","/">>
\* "https://evil.com/indiatimes.com"
UrlPath ==
    <<"h","t","t","p","s",":","/","/","e","v","i","l",".","c","o","m","/","i","n","d","i","a","t","i","m","e","s",".","c","o","m">>
\* "http://[m.timesofindia.com/"
UrlBracket ==
    <<"h","t","t","p",":","/","/","[","m",".","t","i","m","e","s","o","f","i","n","d","i","a",".","c","o","m","/">>
\* "https:///timesofindia.indiatimes.com"
UrlNoHost ==
    <<"h","t","t","p","s",":","/","/","/","t","i","m","e","s","o","f","i","n","d","i","a",".","i","n","d","i","a","t","i","m","e","s",".","c","o","m">>
\* "https://faketimesofindia.com/x"
UrlLookalike ==
    <<"h","t","t","p","s",":","/","/","f","a","k","e","t","i","m","e","s","o","f","i","n","d","i","a",".","c","o","m","/","x">>

\* ""
UrlEmpty == <<>>

Urls ==
    {UrlEmpty, UrlToi, UrlEvil, UrlSub, UrlNotAUrl,
     UrlMobile, UrlUpper, UrlUser, UrlFooled,
     UrlPath, UrlBracket, UrlNoHost, UrlLookalike}

----
\* The feed documents a server may answer with. A document is what its markup
\* holds: whether it is well-formed XML, and its <item> elements in document
\* order, each with the text of its first <title>, <link> and <pubDate>
\* element (None when the item has no such element). For markup that is not
\* well-formed, items are the elements a recovering parser still finds.

TextA == <<" ", "A", " ">>
TextB == <<"B">>
TextDate == <<"M", "o", "n", " ">>

ItemFull == [title |-> Some(TextA), link |-> Some(UrlToi \o <<" ">>), pubDate |-> Some(TextDate)]
ItemBare == [title |-> None, link |-> None, pubDate |-> None]
ItemEvil == [title |-> Some(TextB), link |-> Some(UrlEvil), pubDate |-> None]

FeedTwo == [wellformed |-> TRUE, items |-> <<ItemFull, ItemBare>>]
FeedOne == [wellformed |-> TRUE, items |-> <<ItemEvil>>]
FeedEmpty == [wellformed |-> TRUE, items |-> <<>>]
FeedTruncated == [wellformed |-> FALSE, items |-> <<ItemEvil>>]
FeedGarbage == [wellformed |-> FALSE, items |-> <<>>]

Bodies == {FeedTwo, FeedOne, FeedEmpty, FeedTruncated, FeedGarbage}

\* What requests.get(url, ..., timeout=10) does (main.py, line 53): it raises
\* ConnectionError or Timeout, or returns a response with a status and a body.
Responses ==
    {[kind |-> k, status |-> 0, body |-> FeedGarbage] : k \in {"ConnectionError", "Timeout"}}
    \cup {[kind |-> "response", status |-> s, body |-> FeedGarbage] : s \in {404}}
    \cup {[kind |-> "response", status |-> 200, body |-> b] : b \in Bodies}

\* response.raise_for_status() (line 54) raises HTTPError for a 4xx or 5xx status
RaisesForStatus(status) == 400 <= status /\ status < 600

\* a variant of RequestFails without the call of raise_for_status
RequestFailsStatusIgnored(resp) == resp.kind \in {"ConnectionError", "Timeout"}

\* the exceptions of requests.get and raise_for_status are RequestExceptions (line 88)
RequestFails(resp) ==
    \/ resp.kind \in {"ConnectionError", "Timeout"}
    \/ RaisesForStatus(resp.status)

\* BeautifulSoup(response.content, features='xml') (line 57): the XML tree builder
\* parses in recovery mode, so on markup that is not well-formed it either raises
\* (the parser rejects the markup) or returns the tree of what it could recover;
\* on well-formed markup it returns the document's tree. soup.find_all('item')
\* (line 59) then yields the items.
Soups(body) ==
    IF body.wellformed
    THEN {[raised |-> FALSE, items |-> body.items]}
    ELSE {[raised |-> TRUE, items |-> <<>>], [raised |-> FALSE, items |-> body.items]}

----
\* fetch_feed (main.py, lines 34-93)

NoTitle == <<"N", "o", " ", "T", "i", "t", "l", "e">>

\* lines 67-79: one entry dictionary from one item
ParseItem(item) ==
    [title     |-> IF item.title # None THEN Strip(item.title[1]) ELSE NoTitle,
     link      |-> IF item.link # None THEN Strip(item.link[1]) ELSE <<>>,
     published |-> IF item.pubDate # None THEN Strip(item.pubDate[1]) ELSE <<>>]

\* lines 65-79: the entries, in the order of the items
ParseEntries(items) == [i \in 1..Len(items) |-> ParseItem(items[i])]

\* a variant of FeedsGet that falls back to the first feed for an unknown genre
FeedsGetWithDefault(genre) ==
    IF genre \in DOMAIN FEEDS THEN Some(FEEDS[genre]) ELSE Some(FEEDS["Top Stories"])

\* FEEDS.get(genre), line 39
FeedsGet(genre) == IF genre \in DOMAIN FEEDS THEN Some(FEEDS[genre]) ELSE None

\* a variant of CacheFresh that still serves an entry exactly CACHE_DURATION old
CacheFreshInclusive(cache, genre, t) ==
    /\ genre \in DOMAIN cache
    /\ t - cache[genre].timestamp <= CACHE_DURATION

\* lines 45-47: the genre has an entry and it is younger than CACHE_DURATION at time t
CacheFresh(cache, genre, t) ==
    /\ genre \in DOMAIN cache
    /\ t - cache[genre].timestamp < CACHE_DURATION

\* a variant of CachePut that forgets the store
CachePutDropped(cache, genre, entries, t) == cache

\* a variant of CachePut that rebinds CACHE to a dict holding only the new entry
CachePutClobbers(cache, genre, entries, t) ==
    [g \in {genre} |-> [data |-> entries, timestamp |-> t]]

\* a variant of CachePut that appends to the entries already stored
CachePutAccumulates(cache, genre, entries, t) ==
    [g \in DOMAIN cache \cup {genre} |->
        IF g = genre
        THEN [data |-> (IF g \in DOMAIN cache THEN cache[g].data ELSE <<>>) \o entries,
              timestamp |-> t]
        ELSE cache[g]]

\* lines 82-85: CACHE[genre] = {'data': entries, 'timestamp': time.time()}
CachePut(cache, genre, entries, t) ==
    [g \in DOMAIN cache \cup {genre} |->
        IF g = genre THEN [data |-> entries, timestamp |-> t] ELSE cache[g]]

\* The outcome of a call: the return value (None or a list), the lines printed,
\* whether and how often requests.get was called, the cache afterwards, the
\* time it took, and the exception that leaves the call (None when it returns).
\* A call that only returns:
Quiet(cache) ==
    [ret |-> None, out |-> <<>>, get |-> FALSE, gets |-> 0, cache |-> cache,
     took |-> 0, exc |-> None]

\* a variant of ServeCached that restamps the entry it serves
ServeCachedTouching(cache, genre, t) ==
    [Quiet(CachePut(cache, genre, cache[genre].data, t))
        EXCEPT !.ret = Some(cache[genre].data)]

\* lines 46-49: the cache hit
ServeCached(cache, genre, t) ==
    [Quiet(cache) EXCEPT !.ret = Some(cache[genre].data)]

\* a variant of HandleSoup without the check for an empty item list
HandleSoupNoEmptyCheck(cache, genre, soup, t) ==
    IF soup.raised
    THEN [Quiet(cache) EXCEPT !.out = <<"Error parsing feed">>]
    ELSE LET entries == ParseEntries(soup.items)
         IN  [Quiet(CachePut(cache, genre, entries, t))
                 EXCEPT !.ret = Some(entries)]

\* a variant of HandleSoup that takes a rejected body for a feed without entries
HandleSoupRejectedAsEmpty(cache, genre, soup, t) ==
    IF soup.raised \/ soup.items = <<>>
    THEN [Quiet(cache) EXCEPT !.out = <<"Warning: No entries found in feed">>]
    ELSE LET entries == ParseEntries(soup.items)
         IN  [Quiet(CachePut(cache, genre, entries, t))
                 EXCEPT !.ret = Some(entries)]

\* lines 56-86 and 91-93: what follows a successful GET, the store being
\* stamped at time t
HandleSoup(cache, genre, soup, t) ==
    IF soup.raised                                                    \* lines 57, 91-93
    THEN [Quiet(cache) EXCEPT !.out = <<"Error parsing feed">>]
    ELSE IF soup.items = <<>>                                         \* lines 59-62
    THEN [Quiet(cache) EXCEPT !.out = <<"Warning: No entries found in feed">>]
    ELSE LET entries == ParseEntries(soup.items)                      \* lines 64-86
         IN  [Quiet(CachePut(cache, genre, entries, t))
                 EXCEPT !.ret = Some(entries)]

\* a variant of OnRequestException that falls back to the entry in the store
OnRequestExceptionServesStale(cache, genre) ==
    [Quiet(cache) EXCEPT !.out = <<"Network error fetching feed">>,
                         !.ret = IF genre \in DOMAIN cache
                                 THEN Some(cache[genre].data) ELSE None]

\* lines 88-90: the handler of requests.exceptions.RequestException
OnRequestException(cache, genre) ==
    [Quiet(cache) EXCEPT !.out = <<"Network error fetching feed">>]

\* a variant of GetCalls: one retry
GetCallsWithRetry(resp) == IF resp.kind = "response" THEN 1 ELSE 2

\* line 53: how many times requests.get is called on the way to the answer resp
GetCalls(resp) == 1

\* The outcome of fetch_feed(genre) called at time t with cache `cache`, when the
\* network answers resp after d seconds and the parser yields soup.
fetch_feed(genre, cache, t, resp, soup, d) ==
    LET url == FeedsGet(genre)
    IN  IF url = None \/ url = Some("")                               \* lines 40-42
        THEN [Quiet(cache) EXCEPT !.out = <<"Error: No URL found for genre">>]
        ELSE IF CacheFresh(cache, genre, t)                           \* lines 45-49
        THEN ServeCached(cache, genre, t)
        ELSE LET r == IF RequestFails(resp)                           \* lines 53-54, 88-90
                      THEN OnRequestException(cache, genre)
                      ELSE HandleSoup(cache, genre, soup, t + d)
             IN  [r EXCEPT !.out = <<"Fetching headlines">> \o r.out, \* line 51
                           !.get = TRUE,
                           !.gets = GetCalls(resp),
                           !.took = d]

----
\* open_article (main.py, lines 135-150)

\* webbrowser.open(url) (line 146) returns, or raises
LaunchResults == {"opened", "raised"}

\* a variant of open_article without the call of is_allowed_url
open_article_unchecked(url, launch) ==
    IF url = <<>>
    THEN [out |-> <<"Error: Invalid URL.">>, launched |-> <<>>, exc |-> None]
    ELSE [out |-> IF launch = "raised"
                  THEN <<"Opening article", "Failed to open browser">>
                  ELSE <<"Opening article">>,
          launched |-> <<url>>, exc |-> None]

\* a variant of open_article without the try around webbrowser.open
open_article_uncaught(url, launch) ==
    IF url = <<>>
    THEN [out |-> <<"Error: Invalid URL.">>, launched |-> <<>>, exc |-> None]
    ELSE IF is_allowed_url(url)
    THEN [out |-> <<"Opening article">>, launched |-> <<url>>,
          exc |-> IF launch = "raised" THEN Some("Exception") ELSE None]
    ELSE [out |-> <<"Security Warning: URL host not allowed. Opening blocked.">>,
          launched |-> <<>>, exc |-> None]

\* The outcome of open_article(url) when the browser facility behaves as launch:
\* the lines printed, the URLs handed to webbrowser.open and the exception that
\* leaves the call (None when it returns).
open_article(url, launch) ==
    IF url = <<>>                                                     \* lines 139-141
    THEN [out |-> <<"Error: Invalid URL.">>, launched |-> <<>>, exc |-> None]
    ELSE IF is_allowed_url(url)                                       \* lines 143-148
    THEN [out |-> IF launch = "raised"
                  THEN <<"Opening article", "Failed to open browser">>
                  ELSE <<"Opening article">>,
          launched |-> <<url>>, exc |-> None]
    ELSE [out |-> <<"Security Warning: URL host not allowed. Opening blocked.">>,
          launched |-> <<>>, exc |-> None]

----
\* get_top_entries (main.py, lines 95-111)

Min(a, b) == IF a <= b THEN a ELSE b

\* the default of the parameter n, line 95
DefaultN == 10

\* a variant of get_top_entries that numbers the records from 0
get_top_entries_from_zero(entries, n) ==
    [ret |-> [i \in 1..Min(Len(entries), n) |->
                [index |-> i - 1, title |-> entries[i].title,
                 link |-> entries[i].link, published |-> entries[i].published]],
     entries |-> entries]

\* The outcome of get_top_entries(entries, n) for n >= 0: the list returned, and
\* the list passed as it is after the call (the slice entries[:n] is a copy).
get_top_entries(entries, n) ==
    IF entries = <<>>                                                 \* lines 100-101
    THEN [ret |-> <<>>, entries |-> entries]
    ELSE [ret |-> [i \in 1..Min(Len(entries), n) |->                  \* lines 103-111
                     [index |-> i, title |-> entries[i].title,
                      link |-> entries[i].link, published |-> entries[i].published]],
          entries |-> entries]

----
\* The main loop and the entry point (main.py, lines 176-228)

\* What input() returns: a line, or EOFError when standard input has ended.
\* "^2" stands for the one character SUPERSCRIPT TWO, for which str.isdigit is
\* true and int raises ValueError.
Lines == {<<"0">>, <<"1">>, <<" ", "2", " ">>, <<"9">>, <<"x">>, <<>>, <<"^2">>}

Reads == {[kind |-> "line", text |-> l] : l \in Lines}
         \cup {[kind |-> "EOFError", text |-> <<>>]}

\* the value of a decimal digit
DigitValue(c) ==
    CASE c = "0" -> 0 [] c = "1" -> 1 [] c = "2" -> 2 [] c = "3" -> 3 [] c = "4" -> 4
      [] c = "5" -> 5 [] c = "6" -> 6 [] c = "7" -> 7 [] c = "8" -> 8 [] c = "9" -> 9

\* str.isdigit(): not empty, and every character is a digit character
IsDigit(s) == s # <<>> /\ \A i \in 1..Len(s) : s[i] \in Digits \cup {"^2"}

\* the value of a string of decimal digits
RECURSIVE Decimal(_)
Decimal(s) ==
    IF s = <<>> THEN 0
    ELSE 10 * Decimal(SubSeq(s, 1, Len(s) - 1)) + DigitValue(s[Len(s)])

\* int(s): None when it raises ValueError
IntOf(s) ==
    IF s # <<>> /\ \A i \in 1..Len(s) : s[i] \in Digits
    THEN Some(Decimal(s)) ELSE None

\* a variant of ExceptionCatches: a bare except
BareExceptCatches(exc) == TRUE

\* `except Exception` (lines 91, 132, 147) catches exc: KeyboardInterrupt and
\* SystemExit derive from BaseException only
ExceptionCatches(exc) == exc \notin {"KeyboardInterrupt", "SystemExit"}

\* a variant of EntryPoint that exits with status 1 on an interrupt
EntryPointFailing(exc) ==
    [out |-> IF exc = "KeyboardInterrupt" THEN <<"Exiting...">> ELSE <<"Traceback">>,
     status |-> 1,
     cause |-> IF exc = "KeyboardInterrupt" THEN "interrupt" ELSE exc]

\* lines 223-228: what the entry point does with an exception that leaves main()
EntryPoint(exc) ==
    IF exc = "KeyboardInterrupt"                                      \* lines 226-228
    THEN [out |-> <<"Exiting...">>, status |-> 0, cause |-> "interrupt"]
    ELSE [out |-> <<"Traceback">>, status |-> 1, cause |-> exc]

\* main() is at its first prompt
MainStart ==
    [pc |-> "menu", genre |-> "", entries |-> <<>>, url |-> <<>>, input |-> None,
     out |-> <<>>, status |-> None, cause |-> "", last |-> "", at |-> ""]

\* the process has ended: main() returned, or an exception left it
Ended(m, out, status, cause) ==
    [m EXCEPT !.pc = "ended", !.out = out, !.status = Some(status), !.cause = cause]

\* an exception leaves main() and reaches the entry point
Raised(m, exc) ==
    LET e == EntryPoint(exc) IN Ended(m, e.out, e.status, e.cause)

\* a variant of MenuStep that takes the choice as a position without checking it
MenuStepUnchecked(m, read) ==
    IF read.kind = "EOFError" THEN Raised(m, "EOFError")
    ELSE LET choice == Strip(read.text)
         IN  IF choice = <<"0">>
             THEN Ended(m, <<"Exiting...">>, 0, "exit request")
             ELSE IF ~IsDigit(choice)
             THEN [m EXCEPT !.out = <<"Invalid input. Please enter a number.">>]
             ELSE IF IntOf(choice) = None THEN Raised(m, "ValueError")
             ELSE [m EXCEPT !.pc = "fetching", !.out = <<>>,
                            !.genre = IF IntOf(choice)[1] <= Len(GenreNames)
                                      THEN GenreNames[IntOf(choice)[1]]
                                      ELSE "Politics"]

\* lines 180-192 and 220-221: one pass of the loop at the genre menu, on what
\* input() gave; pc "fetching" stands for the call fetch_feed(genre) of line 193
MenuStep(m, read) ==
    IF read.kind = "EOFError" THEN Raised(m, "EOFError")              \* line 162
    ELSE LET choice == Strip(read.text)                               \* line 162
         IN  IF choice = <<"0">>                                      \* lines 182-184
             THEN Ended(m, <<"Exiting...">>, 0, "exit request")
             ELSE IF ~IsDigit(choice)                                 \* lines 186-188
             THEN [m EXCEPT !.out = <<"Invalid input. Please enter a number.">>]
             ELSE IF IntOf(choice) = None THEN Raised(m, "ValueError") \* line 190
             ELSE LET index == IntOf(choice)[1] - 1
                  IN  IF 0 <= index /\ index < Len(GenreNames)        \* lines 191-193
                      THEN [m EXCEPT !.pc = "fetching", !.out = <<>>,
                                     !.genre = GenreNames[index + 1]]
                      ELSE [m EXCEPT !.out = <<"Invalid genre selection.">>]

\* lines 193-199: what main does with the outcome r of fetch_feed
AfterFetch(m, r) ==
    IF r.exc # None THEN Raised(m, r.exc[1])
    ELSE IF r.ret # None /\ r.ret[1] # <<>>                           \* line 195
    THEN LET entries == get_top_entries(r.ret[1], DefaultN).ret       \* line 196
         IN  IF entries = <<>>                                        \* lines 197-199
             THEN [m EXCEPT !.pc = "menu", !.out = <<"No headlines available.">>]
             ELSE [m EXCEPT !.pc = "headlines", !.entries = entries, !.out = <<>>]
    ELSE [m EXCEPT !.pc = "menu", !.out = <<>>]

\* lines 203-219: one pass of the headline loop, on what input() gave; pc
\* "opening" stands for the call open_article(article['link']) of line 217
HeadlineStep(m, read) ==
    IF read.kind = "EOFError" THEN Raised(m, "EOFError")              \* line 205
    ELSE LET choice == Strip(read.text)                               \* line 205
         IN  IF choice = <<"0">>                                      \* lines 207-208
             THEN [m EXCEPT !.pc = "menu", !.out = <<>>]
             ELSE IF ~IsDigit(choice)                                 \* lines 210-212
             THEN [m EXCEPT !.out = <<"Invalid input.">>]
             ELSE IF IntOf(choice) = None THEN Raised(m, "ValueError") \* line 214
             ELSE LET article_index == IntOf(choice)[1] - 1
                  IN  IF 0 <= article_index /\ article_index < Len(m.entries)
                      THEN [m EXCEPT !.pc = "opening", !.out = <<>>,   \* lines 215-217
                                     !.url = m.entries[article_index + 1].link]
                      ELSE [m EXCEPT !.out = <<"Invalid article number.">>]

\* line 217: what main does with the outcome r of open_article
AfterOpen(m, r) ==
    IF r.exc # None THEN Raised(m, r.exc[1])
    ELSE [m EXCEPT !.pc = "headlines", !.out = <<>>]

\* KeyboardInterrupt is raised where main stands: in input() at either prompt,
\* inside the try block of fetch_feed (lines 52-93), or inside the try block
\* around webbrowser.open (lines 145-148). A handler that catches it makes the
\* call return as after any other failure; otherwise it reaches the entry point.
Interrupted(m) ==
    IF m.pc \in {"fetching", "opening"} /\ ExceptionCatches("KeyboardInterrupt")
    THEN [m EXCEPT !.pc = IF m.pc = "fetching" THEN "menu" ELSE "headlines",
                   !.out = <<>>]
    ELSE Raised(m, "KeyboardInterrupt")

----
\* The state machine: a caller that invokes the functions of main.py one at a
\* time (the program is single-threaded), while the clock advances.

\* the genres callers pass to fetch_feed: registered ones and ones that are not
GenreArgs == {"Top Stories", "India", "Politics"}

\* how long, in seconds, a network round trip takes
Delays == {0, 1}

\* The environment is consulted only when the call reaches requests.get (line 53):
\* the answers of the network and of the parser to fetch_feed(genre) called now.
NoAnswer == [resp |-> [kind |-> "Timeout", status |-> 0, body |-> FeedGarbage],
             soup |-> [raised |-> TRUE, items |-> <<>>], d |-> 0]

Answers(genre) ==
    IF FeedsGet(genre) # None /\ ~CacheFresh(CACHE, genre, now)
    THEN {[resp |-> resp, soup |-> soup, d |-> d] :
             resp \in {x \in Responses : RequestFails(x)},
             soup \in {NoAnswer.soup}, d \in Delays}
         \cup UNION {{[resp |-> resp, soup |-> soup, d |-> d] :
                        soup \in Soups(resp.body), d \in Delays} :
                     resp \in {x \in Responses : ~RequestFails(x)}}
    ELSE {NoAnswer}

\* the clock advances between calls
TickSteps == {1, CACHE_DURATION - 1}

Init ==
    /\ now = 0
    /\ CACHE = <<>>
    /\ lastGet = [g \in DOMAIN FEEDS |-> None]
    /\ browser = <<>>
    /\ call = [op |-> "start", n |-> 0]
    /\ steps = 0
    /\ main = MainStart

Tick ==
    /\ steps < MaxSteps
    /\ \E dt \in TickSteps : now' = now + dt
    /\ steps' = steps + 1
    /\ UNCHANGED <<CACHE, lastGet, browser, call, main>>

\* The effects of the call fetch_feed(genre) with outcome r on the answer a.
FetchEffects(genre, a, r) ==
    /\ CACHE' = r.cache
    /\ now' = now + r.took
    /\ lastGet' = IF r.get
                   THEN [lastGet EXCEPT ![genre] =
                            Some([t |-> now, stored |-> r.ret # None])]
                   ELSE lastGet
    /\ call' = [op |-> "fetch_feed", n |-> steps + 1, genre |-> genre,
                t |-> now, took |-> r.took, cache0 |-> CACHE,
                prev |-> IF genre \in DOMAIN lastGet THEN lastGet[genre] ELSE None,
                ret |-> r.ret, out |-> r.out, get |-> r.get, gets |-> r.gets,
                exc |-> r.exc,
                resp |-> IF r.get THEN Some(a.resp) ELSE None,
                soup |-> IF r.get /\ ~RequestFails(a.resp) THEN Some(a.soup) ELSE None]

\* fetch_feed(genre), lines 34-93
FetchFeed ==
    /\ steps < MaxSteps
    /\ \E genre \in GenreArgs :
         \E a \in Answers(genre) :
            \E r \in {fetch_feed(genre, CACHE, now, a.resp, a.soup, a.d)} :
                FetchEffects(genre, a, r)
    /\ steps' = steps + 1
    /\ UNCHANGED <<browser, main>>

\* The effects of the call open_article(url) with outcome r, webbrowser.open
\* behaving as launch when it is reached.
OpenEffects(url, launch, r) ==
    /\ browser' = browser \o r.launched
    /\ call' = [op |-> "open_article", n |-> steps + 1, url |-> url,
                out |-> r.out, launched |-> r.launched, exc |-> r.exc,
                launch |-> IF r.launched # <<>> THEN Some(launch) ELSE None]

\* open_article(url), lines 135-150
OpenArticle ==
    /\ steps < MaxSteps
    /\ Len(browser) < MaxLaunches
    /\ \E url \in Urls, launch \in LaunchResults :
         \E r \in {open_article(url, launch)} :
             OpenEffects(url, launch, r)
    /\ steps' = steps + 1
    /\ UNCHANGED <<now, CACHE, lastGet, main>>

\* is_allowed_url(url), lines 113-133
IsAllowedUrl ==
    /\ steps < MaxSteps
    /\ \E url \in Urls :
         call' = [op |-> "is_allowed_url", n |-> steps + 1, url |-> url,
                  ret |-> is_allowed_url(url)]
    /\ steps' = steps + 1
    /\ UNCHANGED <<now, CACHE, lastGet, browser, main>>

\* get_top_entries(entries, n), lines 95-111, on lists of distinct entries
SampleEntry(i) ==
    [title |-> <<"#", ToString(i)>>,
     link |-> IF i % 2 = 1 THEN UrlToi ELSE <<>>,
     published |-> IF i % 3 = 0 THEN TextB ELSE <<>>]

SampleEntries(len) == [i \in 1..len |-> SampleEntry(i)]

GetTopEntries ==
    /\ steps < MaxSteps
    /\ \E len \in 0..MaxEntries, n \in 0..MaxN :
         \E r \in {get_top_entries(SampleEntries(len), n)} :
            call' = [op |-> "get_top_entries", n |-> steps + 1,
                     entries |-> SampleEntries(len), topn |-> n,
                     ret |-> r.ret, after |-> r.entries]
    /\ steps' = steps + 1
    /\ UNCHANGED <<now, CACHE, lastGet, browser, main>>

\* main reads a line at the genre menu, lines 180-192
MenuInput ==
    /\ steps < MaxMainSteps
    /\ main.pc = "menu"
    /\ \E read \in Reads :
         main' = MenuStep([main EXCEPT !.input = Some(read), !.last = "input",
                                       !.at = main.pc], read)
    /\ steps' = steps + 1
    /\ UNCHANGED <<now, CACHE, lastGet, browser, call>>

\* the call fetch_feed(genre) of main, lines 193-199
FetchReturn ==
    /\ steps < MaxMainSteps
    /\ main.pc = "fetching"
    /\ \E a \in Answers(main.genre) :
         \E r \in {fetch_feed(main.genre, CACHE, now, a.resp, a.soup, a.d)} :
            /\ FetchEffects(main.genre, a, r)
            /\ main' = AfterFetch([main EXCEPT !.input = None, !.last = "call",
                                                !.at = main.pc], r)
    /\ steps' = steps + 1
    /\ UNCHANGED browser

\* main reads a line at the headline prompt, lines 203-219
HeadlineInput ==
    /\ steps < MaxMainSteps
    /\ main.pc = "headlines"
    /\ \E read \in Reads :
         main' = HeadlineStep([main EXCEPT !.input = Some(read), !.last = "input",
                                           !.at = main.pc], read)
    /\ steps' = steps + 1
    /\ UNCHANGED <<now, CACHE, lastGet, browser, call>>

\* the call open_article(article['link']) of main, line 217
OpenReturn ==
    /\ steps < MaxMainSteps
    /\ main.pc = "opening"
    /\ \E launch \in LaunchResults :
         \E r \in {open_article(main.url, launch)} :
            /\ OpenEffects(main.url, launch, r)
            /\ main' = AfterOpen([main EXCEPT !.input = None, !.last = "call",
                                               !.at = main.pc], r)
    /\ steps' = steps + 1
    /\ UNCHANGED <<now, CACHE, lastGet>>

\* an interrupt signal arrives while main runs, lines 223-228
Interrupt ==
    /\ steps < MaxMainSteps
    /\ main.pc # "ended"
    /\ main' = Interrupted([main EXCEPT !.input = None, !.last = "interrupt",
                                         !.at = main.pc])
    /\ steps' = steps + 1
    /\ UNCHANGED <<now, CACHE, lastGet, browser, call>>

Next ==
    \/ Tick \/ FetchFeed \/ OpenArticle \/ IsAllowedUrl \/ GetTopEntries
    \/ MenuInput \/ FetchReturn \/ HeadlineInput \/ OpenReturn \/ Interrupt

Spec == Init /\ [][Next]_vars

\* the feed fetcher and its cache alone
NextFeed == Tick \/ FetchFeed
SpecFeed == Init /\ [][NextFeed]_vars

\* the validator and the launcher alone
NextUrl == OpenArticle \/ IsAllowedUrl
SpecUrl == Init /\ [][NextUrl]_vars

\* get_top_entries alone
NextTop == GetTopEntries
SpecTop == Init /\ [][NextTop]_vars

\* the program as it runs: the interactive loop, its calls and the clock
NextMain ==
    Tick \/ MenuInput \/ FetchReturn \/ HeadlineInput \/ OpenReturn \/ Interrupt
SpecMain == Init /\ [][NextMain]_vars

----
\* Properties of fetch_feed, checked under SpecFeed.

\* the last call was fetch_feed
Fetched == call.op = "fetch_feed"

\* the last call was fetch_feed and it reached requests.get
FetchedNet == Fetched /\ call.get

\* the GET of the last call failed: connection error, timeout or a 4xx/5xx status
NetFailed ==
    /\ FetchedNet
    /\ \/ call.resp[1].kind \in {"ConnectionError", "Timeout"}
       \/ call.resp[1].status >= 400

\* the GET of the last call succeeded and the parser returned a tree
Parsed == FetchedNet /\ ~NetFailed /\ ~call.soup[1].raised

\* C1 (as stated): for every registered topic, the fetch_feed calls issue at most
\* one network GET within any window of CACHE_DURATION seconds: a GET for a topic
\* comes at least CACHE_DURATION seconds after the previous GET for that topic.
C1_OneGetPerWindow ==
    (FetchedNet /\ call.prev # None) =>
        call.t - call.prev[1].t >= CACHE_DURATION

\* C1 (amended): a GET for a topic whose previous GET succeeded with a non-empty
\* parse (and so stamped the cache) comes at least CACHE_DURATION seconds after
\* that previous GET; a GET that failed or yielded no entries opens no such window.
C1_OneGetPerWindowAfterStore ==
    (FetchedNet /\ call.prev # None /\ call.prev[1].stored) =>
        call.t - call.prev[1].t >= CACHE_DURATION

\* a second GET for a topic went out once the window opened by a stored fetch closed
C1_Witness ==
    /\ FetchedNet
    /\ call.prev # None
    /\ call.prev[1].stored
    /\ call.t - call.prev[1].t = CACHE_DURATION

\* C2: with an entry for T in the store, fetch_feed(T) issues a new GET once
\* now - fetched_at >= CACHE_DURATION (the boundary included), and serves the
\* entry without a GET while now - fetched_at < CACHE_DURATION.
C2_ExpiryAtBoundary ==
    (Fetched /\ call.genre \in DOMAIN call.cache0) =>
        LET age == call.t - call.cache0[call.genre].timestamp
        IN  /\ age >= CACHE_DURATION => call.get
            /\ age < CACHE_DURATION =>
                  ~call.get /\ call.ret = Some(call.cache0[call.genre].data)

\* an entry exactly CACHE_DURATION old was in the store and a GET was issued
C2_Witness ==
    /\ FetchedNet
    /\ call.genre \in DOMAIN call.cache0
    /\ call.t - call.cache0[call.genre].timestamp = CACHE_DURATION

\* a store that holds a young entry under a name that is not in the registry
StrayCache ==
    [g \in {"Politics"} |-> [data |-> ParseEntries(FeedOne.items), timestamp |-> 0]]

\* C3: for a topic that is not a key of the registry, fetch_feed returns None,
\* reports the unknown topic, performs no network call and leaves the cache
\* unchanged; the registry is consulted before the cache, so even a young entry
\* stored under such a name would not be served.
C3_UnknownTopic ==
    /\ (Fetched /\ call.genre \notin DOMAIN FEEDS) =>
          /\ call.ret = None
          /\ call.out = <<"Error: No URL found for genre">>
          /\ ~call.get
          /\ call.took = 0
          /\ CACHE = call.cache0
    /\ \A a \in {NoAnswer} :
          fetch_feed("Politics", StrayCache, 1, a.resp, a.soup, a.d).ret = None

\* fetch_feed was called with an unregistered topic while the cache held entries
C3_Witness ==
    /\ Fetched
    /\ call.genre \notin DOMAIN FEEDS
    /\ call.cache0 # <<>>

\* C6: when fetch_feed(T) misses the cache, the GET succeeds and the body parses
\* to a non-empty item sequence, the entry of T becomes exactly the parsed
\* sequence (one entry per item, in source order) stamped with the time of the
\* store, the entries of all other topics are unchanged, and the call returns
\* the stored sequence.
C6_StoreOnSuccess ==
    (Parsed /\ call.soup[1].items # <<>>) =>
        LET items == call.soup[1].items
            g == call.genre
        IN  /\ g \in DOMAIN CACHE
            /\ call.ret = Some(CACHE[g].data)
            /\ Len(CACHE[g].data) = Len(items)
            /\ \A i \in 1..Len(items) :
                  /\ items[i].title # None =>
                        CACHE[g].data[i].title = Strip(items[i].title[1])
                  /\ items[i].title = None => CACHE[g].data[i].title = NoTitle
                  /\ items[i].link # None =>
                        CACHE[g].data[i].link = Strip(items[i].link[1])
                  /\ items[i].link = None => CACHE[g].data[i].link = <<>>
                  /\ items[i].pubDate # None =>
                        CACHE[g].data[i].published = Strip(items[i].pubDate[1])
                  /\ items[i].pubDate = None => CACHE[g].data[i].published = <<>>
            /\ CACHE[g].timestamp = call.t + call.took
            /\ DOMAIN CACHE = DOMAIN call.cache0 \cup {g}
            /\ \A h \in DOMAIN call.cache0 : h # g => CACHE[h] = call.cache0[h]

\* a two-item feed replaced an older entry of the topic, fetched after a delay,
\* while another topic had an entry
C6_Witness ==
    /\ Parsed
    /\ Len(call.soup[1].items) = 2
    /\ call.took > 0
    /\ call.genre \in DOMAIN call.cache0
    /\ call.cache0[call.genre].data # CACHE[call.genre].data
    /\ DOMAIN call.cache0 # {call.genre}

\* C7: when fetch_feed(T) finds an entry of T younger than CACHE_DURATION, it
\* returns the stored sequence, issues no network call and leaves the whole
\* cache unchanged, the entry's stamp included.
C7_HitIsReadOnly ==
    (/\ Fetched
     /\ call.genre \in DOMAIN call.cache0
     /\ call.t - call.cache0[call.genre].timestamp < CACHE_DURATION) =>
        /\ call.ret = Some(call.cache0[call.genre].data)
        /\ ~call.get
        /\ call.out = <<>>
        /\ CACHE = call.cache0
        /\ CACHE[call.genre].timestamp = call.cache0[call.genre].timestamp

\* an entry one second short of CACHE_DURATION was served
C7_Witness ==
    /\ Fetched
    /\ call.genre \in DOMAIN call.cache0
    /\ call.t - call.cache0[call.genre].timestamp = CACHE_DURATION - 1
    /\ call.ret # None

\* C8: when the GET of fetch_feed(T) fails (connection error, timeout or a
\* non-success status), a network error is reported, None is returned and the
\* cache is exactly as before the call: an absent entry stays absent and an
\* expired entry keeps its data and stamp.
C8_NetworkFailure ==
    NetFailed =>
        /\ call.ret = None
        /\ call.out = <<"Fetching headlines", "Network error fetching feed">>
        /\ CACHE = call.cache0

\* a refetch over an expired entry failed with a 404
C8_Witness ==
    /\ NetFailed
    /\ call.resp[1].status = 404
    /\ call.genre \in DOMAIN CACHE
    /\ call.t - CACHE[call.genre].timestamp >= CACHE_DURATION

\* a first fetch of a topic timed out
C8_WitnessAbsent ==
    /\ NetFailed
    /\ call.resp[1].kind = "Timeout"
    /\ call.genre \notin DOMAIN CACHE

\* C9: when the fetched body parses to zero items, fetch_feed reports that no
\* entries were found (a warning, not one of the two errors), returns None and
\* does not write the cache.
C9_EmptyResult ==
    (Parsed /\ call.soup[1].items = <<>>) =>
        /\ call.ret = None
        /\ call.out = <<"Fetching headlines", "Warning: No entries found in feed">>
        /\ CACHE = call.cache0

\* a well-formed feed without items was fetched for a topic with no entry
C9_Witness ==
    /\ Parsed
    /\ call.resp[1].body = FeedEmpty
    /\ call.genre \notin DOMAIN CACHE

----
\* Properties of is_allowed_url and open_article, checked under SpecUrl.

\* the output of an open_article call that refused to launch
BlockedOut ==
    {<<"Error: Invalid URL.">>,
     <<"Security Warning: URL host not allowed. Opening blocked.">>}

\* C4: the browser-launch facility is invoked with a URL only if the URL is
\* non-empty and is_allowed_url accepts it; open_article with an empty or a
\* rejected URL launches nothing and reports the URL as invalid or blocked;
\* open_article with a non-empty allowed URL launches exactly once, with that URL.
C4_LaunchOnlyAllowed ==
    /\ \A i \in 1..Len(browser) : browser[i] # <<>> /\ is_allowed_url(browser[i])
    /\ call.op = "open_article" =>
          IF call.url = <<>> \/ ~is_allowed_url(call.url)
          THEN /\ call.launched = <<>>
               /\ call.out \in BlockedOut
               /\ call.url = <<>> <=> call.out = <<"Error: Invalid URL.">>
          ELSE /\ call.launched = <<call.url>>
               /\ browser # <<>>
               /\ browser[Len(browser)] = call.url
               /\ call.out \notin BlockedOut

\* an allowed URL was launched, and then a rejected one was refused
C4_Witness ==
    /\ call.op = "open_article"
    /\ call.url = UrlEvil
    /\ call.launched = <<>>
    /\ browser = <<UrlSub>>

\* the host of url as the claim reads it: None when the URL is unparsable or
\* names no host
HostOf(url) ==
    IF urlparse(url).ok THEN hostnameOf(urlparse(url).netloc) ELSE None

----
\* More properties of fetch_feed, checked under SpecFeed.

\* the last call found no young entry of a registered genre: a miss
Missed ==
    /\ Fetched
    /\ call.genre \in DOMAIN FEEDS
    /\ ~(/\ call.genre \in DOMAIN call.cache0
         /\ call.t - call.cache0[call.genre].timestamp < CACHE_DURATION)

\* the GET of the last call succeeded and its body parsed to at least one item
Stored == Parsed /\ call.soup[1].items # <<>>

\* C15: an invocation of fetch_feed issues at most one GET and writes the cache
\* at most once: one GET exactly when the topic is registered and the lookup
\* misses, one write (of the topic's entry alone) exactly when that GET
\* succeeds and parses to a non-empty sequence. Nothing else issues a GET or
\* writes the cache: at all times the cache is what the last call left, so the
\* passage of time neither refreshes nor evicts an entry.
C15_OneGetOneWrite ==
    /\ call.op = "start" => CACHE = <<>>
    /\ Fetched =>
          /\ call.gets <= 1
          /\ call.gets = 1 <=> Missed
          /\ call.get <=> Missed
          /\ CACHE # call.cache0 <=> (Missed /\ Stored)
          /\ CACHE =
                IF Missed /\ Stored
                THEN [h \in DOMAIN call.cache0 \cup {call.genre} |->
                        IF h = call.genre
                        THEN [data |-> call.ret[1], timestamp |-> call.t + call.took]
                        ELSE call.cache0[h]]
                ELSE call.cache0
    /\ \A g \in DOMAIN FEEDS :
          lastGet[g] # None =>
             /\ lastGet[g][1].t <= now
             /\ lastGet[g][1].stored => g \in DOMAIN CACHE

\* time passed after a call and an expired entry is still in the store
C15_Witness ==
    /\ Fetched
    /\ call.n < steps
    /\ call.genre \in DOMAIN CACHE
    /\ now - CACHE[call.genre].timestamp > CACHE_DURATION

\* C16: the cache holds at most one entry per topic and its keys are topic
\* names of the registry; a refetch replaces the entry of the topic rather
\* than adding to it.
C16_OneEntryPerTopic ==
    /\ DOMAIN CACHE \subseteq DOMAIN FEEDS
    /\ Cardinality(DOMAIN CACHE) <= Len(GenreNames)
    /\ (Stored /\ call.genre \in DOMAIN call.cache0) =>
          /\ DOMAIN CACHE = DOMAIN call.cache0
          /\ Len(CACHE[call.genre].data) = Len(call.soup[1].items)
          /\ CACHE[call.genre].data = call.ret[1]

\* a refetch replaced a two-entry list by a one-entry list
C16_Witness ==
    /\ Stored
    /\ call.genre \in DOMAIN call.cache0
    /\ Len(call.cache0[call.genre].data) = 2
    /\ Len(CACHE[call.genre].data) = 1

\* C17: fetch_feed never serves stale data: a sequence it returns is the one in
\* the store, stamped less than CACHE_DURATION seconds before the return (or
\* in the call itself); when the refetch over an expired entry fails, is
\* rejected or comes back empty the call returns None, and after a GET that
\* stored nothing the next call for the topic issues a GET again.
C17_NeverStale ==
    /\ (Fetched /\ call.ret # None) =>
          /\ call.genre \in DOMAIN CACHE
          /\ CACHE[call.genre].data = call.ret[1]
          /\ (call.t + call.took) - CACHE[call.genre].timestamp < CACHE_DURATION
          /\ call.get => CACHE[call.genre].timestamp = call.t + call.took
    /\ (FetchedNet /\ ~Stored) => call.ret = None
    /\ (Fetched /\ call.genre \in DOMAIN FEEDS /\ call.prev # None
           /\ ~call.prev[1].stored) => call.get

\* a second refetch over an expired entry failed like the first
C17_Witness ==
    /\ NetFailed
    /\ call.genre \in DOMAIN CACHE
    /\ call.t - CACHE[call.genre].timestamp >= CACHE_DURATION
    /\ call.prev # None
    /\ ~call.prev[1].stored
    /\ call.ret = None

----
\* Properties of get_top_entries, checked under SpecTop.

\* C11: for an entry sequence of length L and n >= 0, get_top_entries returns
\* exactly min(L, n) records in the original order, the i-th with index i and
\* the title, link and published of the i-th entry; for L = 15 and n = 10 it
\* returns 10 records indexed 1..10; the sequence passed is not modified.
C11_TopEntries ==
    call.op = "get_top_entries" =>
        LET L == Len(call.entries)
            k == IF L <= call.topn THEN L ELSE call.topn
        IN  /\ Len(call.ret) = k
            /\ \A i \in 1..k :
                  /\ call.ret[i].index = i
                  /\ call.ret[i].title = call.entries[i].title
                  /\ call.ret[i].link = call.entries[i].link
                  /\ call.ret[i].published = call.entries[i].published
            /\ (L = 15 /\ call.topn = 10) =>
                  /\ Len(call.ret) = 10
                  /\ {call.ret[i].index : i \in 1..Len(call.ret)} = 1..10
            /\ call.after = call.entries

\* fifteen entries were cut to the first ten
C11_Witness ==
    /\ call.op = "get_top_entries"
    /\ Len(call.entries) = 15
    /\ call.topn = 10
    /\ Len(call.ret) = 10
    /\ call.ret[10].title = <<"#", "10">>

----
\* Properties of the interactive loop, checked under SpecMain.

\* the call of main that has just returned or raised
JustCalled(op) == call.op = op /\ call.n = steps /\ main.last = "call"

C13_OnlyExitOrInterrupt ==
    main.pc = "ended" => main.cause \in {"exit request", "interrupt"}

\* C14: an interrupt signal arriving at any point of the loop (topic menu,
\* fetch in flight, headline prompt, article open) terminates the process with
\* status 0, the exit notice printed.
C14_InterruptExitsCleanly ==
    /\ main.last = "interrupt" =>
          /\ main.pc = "ended"
          /\ main.cause = "interrupt"
    /\ main.cause = "interrupt" =>
          /\ main.last = "interrupt"
          /\ main.status = Some(0)
          /\ main.out = <<"Exiting...">>

\* the interrupt arrived while a fetch was in flight
C14_Witness ==
    /\ main.last = "interrupt"
    /\ main.at = "fetching"
    /\ main.pc = "ended"
    /\ main.status = Some(0)

\* the number a line of input stands for, when it is one: the stripped line
\* consists of decimal digits
IsNumber(read) ==
    /\ read.kind = "line"
    /\ Strip(read.text) # <<>>
    /\ \A i \in 1..Len(Strip(read.text)) : Strip(read.text)[i] \in Digits

NumberOf(read) == Decimal(Strip(read.text))

\* C19: main calls fetch_feed only with keys of the registry, and open_article
\* only with the link of the entry of the displayed view that the input selects
\* by an index in 1..len(view); an input that is not a number or is out of
\* range starts neither a fetch nor an open.
C19_MainCallsAreValid ==
    /\ main.pc = "fetching" =>
          /\ main.genre \in DOMAIN FEEDS
          /\ IsNumber(main.input[1])
          /\ NumberOf(main.input[1]) \in 1..Len(GenreNames)
          /\ main.genre = GenreNames[NumberOf(main.input[1])]
    /\ call.op = "fetch_feed" => call.genre \in DOMAIN FEEDS
    /\ main.pc = "opening" =>
          /\ IsNumber(main.input[1])
          /\ NumberOf(main.input[1]) \in 1..Len(main.entries)
          /\ main.url = main.entries[NumberOf(main.input[1])].link
          /\ main.entries[NumberOf(main.input[1])].index = NumberOf(main.input[1])
    /\ JustCalled("open_article") =>
          \E i \in 1..Len(main.entries) : call.url = main.entries[i].link
    /\ (main.last = "input" /\ main.at = "menu"
           /\ ~(IsNumber(main.input[1])
                 /\ NumberOf(main.input[1]) \in 1..Len(GenreNames))) =>
          main.pc \in {"menu", "ended"}
    /\ (main.last = "input" /\ main.at = "headlines"
           /\ ~(IsNumber(main.input[1])
                 /\ NumberOf(main.input[1]) \in 1..Len(main.entries))) =>
          main.pc \in {"headlines", "menu", "ended"}

\* the second headline of a two-entry view was opened
C19_Witness ==
    /\ JustCalled("open_article")
    /\ Len(main.entries) = 2
    /\ call.url = main.entries[2].link
    /\ main.input = None

\* an article number beyond the view was refused
C19_WitnessRefused ==
    /\ main.last = "input"
    /\ main.at = "headlines"
    /\ main.input = Some([kind |-> "line", text |-> <<"9">>])
    /\ main.pc = "headlines"
    /\ main.out = <<"Invalid article number.">>

\* C18: every cache entry holds a non-empty entry sequence and fetch_feed
\* returns None or a sequence with at least one entry, never an empty one, so
\* main never reaches its "No headlines available." branch and every view it
\* shows has an entry.
C18_NoEmptySequences ==
    /\ \A g \in DOMAIN CACHE : CACHE[g].data # <<>>
    /\ call.op = "fetch_feed" => call.ret # Some(<<>>)
    /\ main.out # <<"No headlines available.">>
    /\ main.pc \in {"headlines", "opening"} => main.entries # <<>>

\* a feed without items came back while the store held another topic's entry
C18_Witness ==
    /\ JustCalled("fetch_feed")
    /\ call.get
    /\ call.soup # None
    /\ call.soup[1].items = <<>>
    /\ ~call.soup[1].raised
    /\ main.pc = "menu"
    /\ CACHE # <<>>

====
